---------------------------- MODULE Spec2Model ----------------------------
(***************************************************************************)
(* Model of the KCD codec (cantools/database/can/formats/kcd.py) and of    *)
(* the gateway route resolver (formats/arxml/gateway.py).                  *)
(*                                                                         *)
(* Three specifications share the module:                                  *)
(*   SpecBits     _start_bit applied on load and again on dump             *)
(*   SpecGateway  Gateway.get_pdu_triggering_routes                        *)
(*   Spec         load_string, dump_string and a second load_string        *)
(***************************************************************************)
EXTENDS Integers, Sequences, FiniteSets, TLC

VARIABLES
    \* ---- _start_bit round trip
    bits_pc, b_byte_order, b_offset, b_start, b_back,
    \* ---- Gateway.get_pdu_triggering_routes
    gw_pc, gateways, gi, ri, target_to_source, tts_keys, ti, result, walks,
    \* ---- load_string, dump_string, load_string
    kcd_pc,      \* where the run is
    pass,        \* 1: loading the input document, 2: loading the dumped one
    root,        \* the element tree of the document being loaded
    load_sort,   \* sort_signals of load_string
    dump_sort,   \* sort_signals of dump_string, after lines 443-444
    ls_nodes, ls_version, ls_buses, ls_messages, bi,   \* locals of load_string
    db,          \* the database the last load_string returned, or None
    loaded,      \* the database the first load_string returned, or None
    dumped,      \* the tree dump_string produced, or None
    error        \* the exception that ended the run, or None

bitsVars == <<bits_pc, b_byte_order, b_offset, b_start, b_back>>
gwVars == <<gw_pc, gateways, gi, ri, target_to_source, tts_keys, ti, result, walks>>
kcdVars == <<kcd_pc, pass, root, load_sort, dump_sort, ls_nodes, ls_version, ls_buses,
             ls_messages, bi, db, loaded, dumped, error>>
vars == <<bitsVars, gwVars, kcdVars>>

\* Python's None, and an optional value v, as sequences of length 0 and 1.
None == <<>>
Some(v) == <<v>>

(***************************************************************************)
(* Bit-position translator: kcd.py _start_bit                              *)
(***************************************************************************)
\* Largest format offset tried.
MaxOffset == 70

ByteOrders == {"little_endian", "big_endian"}

\* Mutant: the mirror uses 8 - x % 8 (bit numbering off by one).
_start_bit_off_by_one(off, bo) ==
    IF bo = "big_endian" THEN 8 * (off \div 8) + (8 - (off % 8)) ELSE off

_start_bit(off, bo) ==
    IF bo = "big_endian" THEN 8 * (off \div 8) + (7 - (off % 8)) ELSE off

BitsIdle ==
    /\ bits_pc = "idle" /\ b_byte_order = "little_endian"
    /\ b_offset = 0 /\ b_start = 0 /\ b_back = 0

BitsInit ==
    /\ bits_pc = "format"
    /\ b_byte_order \in ByteOrders
    /\ b_offset \in 0..MaxOffset
    /\ b_start = 0
    /\ b_back = 0

\* _load_signal_element line 137: start=_start_bit(offset, byte_order)
LoadStartBit ==
    /\ bits_pc = "format"
    /\ b_start' = _start_bit(b_offset, b_byte_order)
    /\ bits_pc' = "canonical"
    /\ UNCHANGED <<b_byte_order, b_offset, b_back>>

\* _dump_signal line 276: offset = _start_bit(signal.start, signal.byte_order)
DumpOffset ==
    /\ bits_pc = "canonical"
    /\ b_back' = _start_bit(b_start, b_byte_order)
    /\ bits_pc' = "dumped"
    /\ UNCHANGED <<b_byte_order, b_offset, b_start>>

(***************************************************************************)
(* Gateway route resolver: gateway.py Gateway.get_pdu_triggering_routes    *)
(***************************************************************************)
\* Route ids and gateway names, each listed in Python's str order.
RouteIds == <<"a", "b", "c">>
GatewayNames == <<"G1", "G2">>

\* Most (source, target) pairs over all gateways of one input.
MaxRoutes == 3

Range(s) == {s[i] : i \in 1..Len(s)}
SeqsUpTo(S, n) == UNION {[1..k -> S] : k \in 0..n}

\* Python's str comparison restricted to the strings the inputs use.
StrOrder == GatewayNames \o RouteIds
StrRank(s) == CHOOSE i \in 1..Len(StrOrder) : StrOrder[i] = s
\* Python's tuple comparison p <= q on pairs of str.
PairLeq(p, q) ==
    \/ StrRank(p[1]) < StrRank(q[1])
    \/ p[1] = q[1] /\ StrRank(p[2]) <= StrRank(q[2])

\* A Gateway object: _name and _pdu_triggering_routes (node_ref is not read).
Gateway(name, routes) == [name |-> name, pdu_triggering_routes |-> routes]

\* The gateway lists of the inputs: every list of non-empty gateways, no two
\* neighbours sharing a name, with at most MaxRoutes route pairs in total,
\* built from the flat list of (name, source, target) the loops will visit.
RECURSIVE GroupRoutes(_, _)
GroupRoutes(flat, acc) ==
    IF flat = <<>> THEN acc
    ELSE LET r == Head(flat)
             pair == <<r[2], r[3]>>
             n == Len(acc)
         IN IF n > 0 /\ acc[n].name = r[1]
            THEN GroupRoutes(Tail(flat),
                     [acc EXCEPT ![n] = Gateway(r[1], Append(acc[n].pdu_triggering_routes, pair))])
            ELSE GroupRoutes(Tail(flat), Append(acc, Gateway(r[1], <<pair>>)))

GatewayLists ==
    {GroupRoutes(f, <<>>) :
        f \in SeqsUpTo(Range(GatewayNames) \X Range(RouteIds) \X Range(RouteIds), MaxRoutes)}

GwIdle ==
    /\ gw_pc = "idle" /\ gateways = <<>> /\ gi = 1 /\ ri = 1
    /\ target_to_source = <<>> /\ tts_keys = <<>> /\ ti = 1
    /\ result = <<>> /\ walks = <<>>

\* dict.get(key, default) on a dict modelled as a function.
DictGet(d, k, default) == IF k \in DOMAIN d THEN d[k] ELSE default
\* d[k] = v
DictSet(d, k, v) == [x \in (DOMAIN d) \cup {k} |-> IF x = k THEN v ELSE d[x]]
\* the keys of d in insertion order, after d[k] = v
KeysSet(keys, k) == IF k \in Range(keys) THEN keys ELSE Append(keys, k)

GwInit ==
    /\ gw_pc = "scan"
    /\ gateways \in GatewayLists
    /\ gi = 1 /\ ri = 1
    /\ target_to_source = <<>>
    /\ tts_keys = <<>>
    /\ ti = 1
    /\ result = <<>>
    /\ walks = <<>>

\* Mutant: first write wins, a stored pair is never replaced.
KeepsNew_first_write(old, new) == old = new

\* line 47: target_to_source.get(target, source_pair) <= source_pair
KeepsNew(old, new) == PairLeq(old, new)

\* lines 42-48, one (source, target) of one gateway per step
ScanRoute ==
    /\ gw_pc = "scan"
    /\ gi <= Len(gateways)
    /\ LET gateway == gateways[gi]
           route == gateway.pdu_triggering_routes[ri]
           source == route[1]
           target == route[2]
           source_pair == <<source, gateway.name>>
       IN /\ IF KeepsNew(DictGet(target_to_source, target, source_pair), source_pair)
             THEN /\ target_to_source' = DictSet(target_to_source, target, source_pair)
                  /\ tts_keys' = KeysSet(tts_keys, target)
             ELSE UNCHANGED <<target_to_source, tts_keys>>
          /\ IF ri < Len(gateway.pdu_triggering_routes)
             THEN ri' = ri + 1 /\ gi' = gi
             ELSE ri' = 1 /\ gi' = gi + 1
    /\ UNCHANGED <<gw_pc, gateways, ti, result, walks>>

\* lines 50-51: the scan is over, targets = target_to_source.keys()
ScanDone ==
    /\ gw_pc = "scan"
    /\ gi > Len(gateways)
    /\ gw_pc' = "resolve"
    /\ UNCHANGED <<gateways, gi, ri, target_to_source, tts_keys, ti, result, walks>>

Reverse(s) == [i \in 1..Len(s) |-> s[Len(s) + 1 - i]]

\* Mutant: the target itself is not in seen_sources at the start.
InitialSeen_empty(target) == {}

\* Mutant: every route id counts as seen from the start.
InitialSeen_every_id(target) == Range(RouteIds)

\* line 55: seen_sources = set([target])
InitialSeen(target) == {target}

\* Mutant: only the gateway of the hop at the origin is kept.
FinalPath_origin_hop_only(gateways_path) == <<gateways_path[Len(gateways_path)]>>

\* Mutant: line 72 (gateways_path.reverse()) is left out.
FinalPath_unreversed(gateways_path) == gateways_path

\* line 72: gateways_path.reverse()
FinalPath(gateways_path) == Reverse(gateways_path)

\* Mutant: the break of lines 63-65 forgets line 64 (source = None).
BreakSource_kept(src) == Some(src)

\* line 64: source = None, before the break
BreakSource(src) == None

\* lines 60-69: the while loop, from the loop variables it starts an iteration
\* with; steps counts the iterations entered. The value is the loop variables
\* on exit; source = None after the break of lines 63-65.
RECURSIVE WalkBack(_, _, _, _, _, _)
WalkBack(tts, prev_source_pair, source, seen_sources, gateways_path, steps) ==
    IF prev_source_pair = None
    THEN [source |-> source, gateways_path |-> gateways_path,
          seen_sources |-> seen_sources, steps |-> steps, looped |-> FALSE]
    ELSE LET src == prev_source_pair[1][1]
             gateway == prev_source_pair[1][2]
         IN IF src \in seen_sources
            THEN [source |-> BreakSource(src), gateways_path |-> gateways_path,
                  seen_sources |-> seen_sources, steps |-> steps + 1, looped |-> TRUE]
            ELSE WalkBack(tts,
                          IF src \in DOMAIN tts THEN Some(tts[src]) ELSE None,
                          Some(src),
                          seen_sources \cup {src},
                          Append(gateways_path, gateway),
                          steps + 1)

\* lines 54-69 for one target
Walk(tts, target) ==
    WalkBack(tts,
             IF target \in DOMAIN tts THEN Some(tts[target]) ELSE None,
             None, InitialSeen(target), <<>>, 0)

\* lines 53-73, one target per step
ResolveTarget ==
    /\ gw_pc = "resolve"
    /\ ti <= Len(tts_keys)
    /\ LET target == tts_keys[ti]
           w == Walk(target_to_source, target)
       IN /\ IF w.source # None
             THEN result' = DictSet(result, target, <<w.source[1], FinalPath(w.gateways_path)>>)
             ELSE result' = result
          /\ walks' = Append(walks, [target |-> target, steps |-> w.steps,
                                     looped |-> w.looped, seen_sources |-> w.seen_sources,
                                     gateways_path |-> w.gateways_path])
    /\ ti' = ti + 1
    /\ UNCHANGED <<gw_pc, gateways, gi, ri, target_to_source, tts_keys>>

\* line 75: return result
GwReturn ==
    /\ gw_pc = "resolve"
    /\ ti > Len(tts_keys)
    /\ gw_pc' = "returned"
    /\ UNCHANGED <<gateways, gi, ri, target_to_source, tts_keys, ti, result, walks>>

(***************************************************************************)
(* KCD codec: attribute text                                               *)
(*                                                                         *)
(* The text of a numeric XML attribute is a sequence of one-character      *)
(* strings, so that str(), int() and the 0x%03X format are computed.       *)
(***************************************************************************)
Digits == <<"0", "1", "2", "3", "4", "5", "6", "7", "8", "9">>
HexDigits == Digits \o <<"A", "B", "C", "D", "E", "F">>

IsDigit(c) == \E i \in 1..Len(Digits) : Digits[i] = c
\* hexadecimal digits are accepted in either case
HexValue(c) ==
    IF \E i \in 1..Len(HexDigits) : HexDigits[i] = c
    THEN (CHOOSE i \in 1..Len(HexDigits) : HexDigits[i] = c) - 1
    ELSE IF c \in {"a", "b", "c", "d", "e", "f"}
    THEN CASE c = "a" -> 10 [] c = "b" -> 11 [] c = "c" -> 12
           [] c = "d" -> 13 [] c = "e" -> 14 [] c = "f" -> 15
    ELSE -1

\* the value of a digit string in the given base
RECURSIVE DigitsValue(_, _)
DigitsValue(t, base) ==
    IF t = <<>> THEN 0
    ELSE DigitsValue(SubSeq(t, 1, Len(t) - 1), base) * base + HexValue(t[Len(t)])

AllDigits(t, base) ==
    /\ Len(t) >= 1
    /\ \A i \in 1..Len(t) : HexValue(t[i]) >= 0 /\ HexValue(t[i]) < base

Unsigned(t) == IF Len(t) >= 1 /\ t[1] \in {"-", "+"} THEN Tail(t) ELSE t
Negative(t) == Len(t) >= 1 /\ t[1] = "-"

\* int(text): does it parse (else ValueError), and its value
IsInt(t) == AllDigits(Unsigned(t), 10)
int(t) == IF Negative(t) THEN 0 - DigitsValue(Unsigned(t), 10) ELSE DigitsValue(Unsigned(t), 10)

\* int(text, 0): the base is taken from the prefix; a decimal literal other
\* than zero must not start with 0
HasHexPrefix(t) == Len(t) >= 2 /\ t[1] = "0" /\ t[2] \in {"x", "X"}
IsIntBase0(t) ==
    LET u == Unsigned(t)
    IN IF HasHexPrefix(u) THEN AllDigits(SubSeq(u, 3, Len(u)), 16)
       ELSE /\ AllDigits(u, 10)
            /\ (u[1] = "0" => \A i \in 1..Len(u) : u[i] = "0")
int0(t) ==
    LET u == Unsigned(t)
        v == IF HasHexPrefix(u) THEN DigitsValue(SubSeq(u, 3, Len(u)), 16)
             ELSE DigitsValue(u, 10)
    IN IF Negative(t) THEN 0 - v ELSE v

\* the digits of a natural number in the given base
RECURSIVE NatDigits(_, _)
NatDigits(n, base) ==
    IF n < base THEN <<HexDigits[n + 1]>>
    ELSE Append(NatDigits(n \div base, base), HexDigits[(n % base) + 1])

\* str(n) of an int
str(n) == IF n < 0 THEN <<"-">> \o NatDigits(0 - n, 10) ELSE NatDigits(n, 10)

\* f'0x{n:03X}': upper-case hexadecimal, zero-padded to three digits
RECURSIVE ZeroPad(_, _)
ZeroPad(t, width) == IF Len(t) >= width THEN t ELSE ZeroPad(<<"0">> \o t, width)
Hex03(n) ==
    <<"0", "x">> \o (IF n < 0 THEN <<"-">> \o ZeroPad(NatDigits(0 - n, 16), 2)
                     ELSE ZeroPad(NatDigits(n, 16), 3))

\* the 'auto' sentinel of the Message length attribute
AUTO == <<"a", "u", "t", "o">>

(***************************************************************************)
(* KCD codec: the element tree of a document                               *)
(*                                                                         *)
(* ElementTree.fromstring yields the tree; an absent attribute or child    *)
(* element is None. Tags are the namespaced ones the loader searches for.  *)
(***************************************************************************)
NAMESPACE == "http://kayak.2codeornot2code.org/1.0"
ROOT_TAG == "{" \o NAMESPACE \o "}NetworkDefinition"

\* <Value min= max= slope= intercept= unit= type=/>
ValueElement(min, max, slope, intercept, unit, type) ==
    [min |-> min, max |-> max, slope |-> slope, intercept |-> intercept,
     unit |-> unit, type |-> type]
\* <Label name= value=/>
LabelElement(name, value) == [name |-> name, value |-> value]
\* <Signal name= offset= length= endianess=> and the attributes and children
\* <Multiplex> shares with it: Notes, Consumer (its NodeRef ids), Value,
\* LabelSet (its Labels)
SignalElement(name, off, length, endianess, notes, consumer, value, labelset) ==
    [name |-> name, offset |-> off, length |-> length, endianess |-> endianess,
     notes |-> notes, consumer |-> consumer, value |-> value, labelset |-> labelset]
\* <MuxGroup count=> and its Signal children
MuxGroupElement(count, signals) == [count |-> count, signals |-> signals]
\* a child of Message that carries signals: <Signal> (no groups) or <Multiplex>
ChildElement(tag, signal, groups) == [tag |-> tag, signal |-> signal, groups |-> groups]
\* <Message name= id= format= length= interval=>, Notes, Producer, children
MessageElement(name, id, format, length, interval, notes, producer, children) ==
    [name |-> name, id |-> id, format |-> format, length |-> length,
     interval |-> interval, notes |-> notes, producer |-> producer,
     children |-> children]
\* <Bus name= baudrate=> and its Message children
BusElement(name, baudrate, messages) ==
    [name |-> name, baudrate |-> baudrate, messages |-> messages]
\* <Node id= name=/>
NodeElement(id, name) == [id |-> id, name |-> name]
\* the root element: its tag, <Document version=>, the Nodes and the Buses
RootElement(tag, doc, nodes, buses) ==
    [tag |-> tag, document |-> doc, nodes |-> nodes, buses |-> buses]

\* the first exception of a sequence of evaluations, each None or Some(type)
RECURSIVE FirstError(_)
FirstError(errs) ==
    IF errs = <<>> THEN None
    ELSE IF Head(errs) # None THEN Head(errs)
    ELSE FirstError(Tail(errs))
Raise(type) == Some(type)

(***************************************************************************)
(* KCD codec: load                                                         *)
(***************************************************************************)
\* num() of formats/utils.py on the decimal integers the documents use
IsNum(t) == IsInt(t)
num(t) == int(t)

\* lines 40-43; the value is None when the loop ends without a return
RECURSIVE _get_node_name_by_id(_, _)
_get_node_name_by_id(nodes, node_id) ==
    IF nodes = <<>> THEN None
    ELSE IF Head(nodes).id = Some(node_id) THEN Head(nodes).name
    ELSE _get_node_name_by_id(Tail(nodes), node_id)

\* lines 41-43: node['id'] and node['name'] raise KeyError on a Node element
\* without that attribute
RECURSIVE NodeLookupRaises(_, _)
NodeLookupRaises(nodes, node_id) ==
    IF nodes = <<>> THEN None
    ELSE IF Head(nodes).id = None THEN Raise("KeyError")
    ELSE IF Head(nodes).id = Some(node_id)
         THEN IF Head(nodes).name = None THEN Raise("KeyError") ELSE None
    ELSE NodeLookupRaises(Tail(nodes), node_id)

\* lines 125-127 and 211-213: one entry is appended per NodeRef
ResolveRefs(refs, nodes) ==
    [i \in 1..Len(refs) |-> _get_node_name_by_id(nodes, refs[i][1])]

\* lines 125-127 and 211-213: receiver.attrib['id'], then the lookup
RefsRaise(refs, nodes) ==
    FirstError([i \in 1..Len(refs) |->
        IF refs[i] = None THEN Raise("KeyError")
        ELSE NodeLookupRaises(nodes, refs[i][1])])

\* lines 112-117: labels[int(value)] = NamedSignalValue(value, name); a dict
\* keeps a key where it was first inserted and the value last assigned
RECURSIVE LoadLabels(_, _)
LoadLabels(labels, acc) ==
    IF labels = <<>> THEN acc
    ELSE LET label_value == int(Head(labels).value[1])
             label_name == Head(labels).name[1]
             at == {i \in 1..Len(acc) : acc[i][1] = label_value}
         IN IF at = {}
            THEN LoadLabels(Tail(labels), Append(acc, <<label_value, label_name>>))
            ELSE LoadLabels(Tail(labels),
                     [acc EXCEPT ![CHOOSE i \in at : TRUE] = <<label_value, label_name>>])

LabelsRaise(labels) ==
    FirstError([i \in 1..Len(labels) |->
        IF labels[i].value = None THEN Raise("KeyError")
        ELSE IF ~IsInt(labels[i].value[1]) THEN Raise("ValueError")
        ELSE IF labels[i].name = None THEN Raise("KeyError")
        ELSE None])

\* line 76: byte_order = f'{value}_endian'
ByteOrderOf(endianess) ==
    IF endianess = None THEN "little_endian" ELSE endianess[1] \o "_endian"

\* The Signal object: the arguments of lines 136-147 (conversion given by its
\* scale, offset, choices and is_float, lines 129-134) and the multiplexer
\* attributes lines 156-165 assign.
Signal(name, start, length, receivers, byte_order, is_signed, is_float, scale, off, choices, minimum, maximum, unit, comment) ==
    [name |-> name, start |-> start, length |-> length, receivers |-> receivers,
     byte_order |-> byte_order, is_signed |-> is_signed, is_float |-> is_float,
     scale |-> scale, offset |-> off, choices |-> choices,
     minimum |-> minimum, maximum |-> maximum, unit |-> unit, comment |-> comment,
     is_multiplexer |-> FALSE, multiplexer_ids |-> None, multiplexer_signal |-> None]

\* Mutant: the else branch of line 77 takes the attribute for the name.
SignalAttrib_else_sets_name(signal) ==
    LET keys == {"name", "offset", "length", "endianess"}
        others == DOMAIN signal \ (keys \cup {"notes", "consumer", "value", "labelset"})
    IN [key \in keys |->
           IF key = "name" /\ others # {} THEN signal[CHOOSE k \in others : TRUE]
           ELSE signal[key]]

\* lines 68-78: the attributes of a Signal or Multiplex element the loop
\* assigns from (None when absent); an attribute of any other name is only logged
SignalAttrib(signal) ==
    [key \in {"name", "offset", "length", "endianess"} |-> signal[key]]
\* lines 84-100: the same for a Value element
ValueAttrib(value) ==
    [key \in {"min", "max", "slope", "intercept", "unit", "type"} |-> value[key]]
\* lines 186-198: the same for a Message element
MessageAttrib(message) ==
    [key \in {"name", "id", "format", "length", "interval"} |-> message[key]]

\* lines 46-147
_load_signal_element(signal, nodes) ==
    LET attrib == SignalAttrib(signal)
        name == attrib.name
        off == IF attrib.offset = None THEN None ELSE Some(int(attrib.offset[1]))
        length == IF attrib.length = None THEN 1 ELSE int(attrib.length[1])
        byte_order == ByteOrderOf(attrib.endianess)
        value == IF signal.value = None THEN None ELSE Some(ValueAttrib(signal.value[1]))
        has(attr) == value # None /\ attr # None
        minimum == IF has(value[1].min) THEN Some(num(value[1].min[1])) ELSE None
        maximum == IF has(value[1].max) THEN Some(num(value[1].max[1])) ELSE None
        slope == IF has(value[1].slope) THEN num(value[1].slope[1]) ELSE 1
        intercept == IF has(value[1].intercept) THEN num(value[1].intercept[1]) ELSE 0
        unit == IF value # None THEN value[1].unit ELSE None
        is_signed == has(value[1].type) /\ value[1].type[1] = "signed"
        is_float == has(value[1].type) /\ value[1].type[1] \in {"single", "double"}
        labels == IF signal.labelset = None THEN None
                  ELSE Some(LoadLabels(signal.labelset[1], <<>>))
        receivers == IF signal.consumer = None THEN <<>>
                     ELSE ResolveRefs(signal.consumer[1], nodes)
    IN Signal(name,
              IF off = None THEN None ELSE Some(_start_bit(off[1], byte_order)),
              length, receivers, byte_order, is_signed, is_float,
              slope, intercept, labels, minimum, maximum, unit, signal.notes)

\* the exception _load_signal_element ends with, if any
SignalRaises(signal, nodes) ==
    LET value == signal.value
        bad(attr) == attr # None /\ ~IsNum(attr[1])
    IN FirstError(<<
        IF signal.offset # None /\ ~IsInt(signal.offset[1]) THEN Raise("ValueError") ELSE None,
        IF signal.length # None /\ ~IsInt(signal.length[1]) THEN Raise("ValueError") ELSE None,
        IF value # None /\ (bad(value[1].min) \/ bad(value[1].max) \/
                            bad(value[1].slope) \/ bad(value[1].intercept))
        THEN Raise("ValueError") ELSE None,
        IF signal.labelset = None THEN None ELSE LabelsRaise(signal.labelset[1]),
        IF signal.consumer = None THEN None ELSE RefsRaise(signal.consumer[1], nodes),
        \* line 137: None // 8
        IF signal.offset = None /\ ByteOrderOf(signal.endianess) = "big_endian"
        THEN Raise("TypeError") ELSE None >>)

Flatten(seqs) ==
    LET RECURSIVE cat(_)
        cat(ss) == IF ss = <<>> THEN <<>> ELSE Head(ss) \o cat(Tail(ss))
    IN cat(seqs)

\* Mutant: line 165 (signal.multiplexer_signal = mux_signal.name) is left out.
LoadMuxGroup_selector_unset(mux_group, mux_name, nodes) ==
    [i \in 1..Len(mux_group.signals) |->
        [_load_signal_element(mux_group.signals[i], nodes) EXCEPT
            !.multiplexer_ids = Some(<<int(mux_group.count[1])>>)]]

\* lines 159-166 for one MuxGroup: its signals, tagged with the group's count
\* and the selector's name
LoadMuxGroup(mux_group, mux_name, nodes) ==
    [i \in 1..Len(mux_group.signals) |->
        [_load_signal_element(mux_group.signals[i], nodes) EXCEPT
            !.multiplexer_ids = Some(<<int(mux_group.count[1])>>),
            !.multiplexer_signal = mux_name]]

\* lines 150-168
_load_multiplex_element(mux, nodes) ==
    LET mux_signal == [_load_signal_element(mux.signal, nodes) EXCEPT !.is_multiplexer = TRUE]
    IN <<mux_signal>> \o
       Flatten([g \in 1..Len(mux.groups) |-> LoadMuxGroup(mux.groups[g], mux_signal.name, nodes)])

MuxGroupRaises(mux_group, nodes) ==
    IF mux_group.count = None THEN Raise("KeyError")
    ELSE FirstError(Flatten([i \in 1..Len(mux_group.signals) |->
            <<SignalRaises(mux_group.signals[i], nodes),
              IF ~IsInt(mux_group.count[1]) THEN Raise("ValueError") ELSE None>>]))

MultiplexRaises(mux, nodes) ==
    FirstError(<<SignalRaises(mux.signal, nodes)>> \o
               [g \in 1..Len(mux.groups) |-> MuxGroupRaises(mux.groups[g], nodes)])

\* element.iterfind(tag): the children with that tag, in document order
ChildrenTagged(children, tag) == SelectSeq(children, LAMBDA c : c.tag = tag)

\* lines 216-222: the signals of every Multiplex, then every Signal
CollectSignals(children, nodes) ==
    LET muxes == ChildrenTagged(children, "Multiplex")
        plain == ChildrenTagged(children, "Signal")
    IN Flatten([i \in 1..Len(muxes) |-> _load_multiplex_element(muxes[i], nodes)]) \o
       [i \in 1..Len(plain) |-> _load_signal_element(plain[i].signal, nodes)]

\* start_bit() of utils.py, the sort key: the signal's canonical start bit
start_bit(signal) == signal.start[1]

\* sorted(signals, key=start_bit): a stable sort
RECURSIVE sorted_by_start_bit(_)
sorted_by_start_bit(signals) ==
    IF signals = <<>> THEN <<>>
    ELSE LET rest == sorted_by_start_bit(SubSeq(signals, 1, Len(signals) - 1))
             last == signals[Len(signals)]
             k == Cardinality({i \in 1..Len(rest) : start_bit(rest[i]) <= start_bit(last)})
         IN SubSeq(rest, 1, k) \o <<last>> \o SubSeq(rest, k + 1, Len(rest))

\* the sort_signals policies: sort_signals_by_start_bit or None
SortPolicies == {"sort_signals_by_start_bit", "None"}
ApplySort(policy, signals) ==
    IF policy = "sort_signals_by_start_bit" THEN sorted_by_start_bit(signals) ELSE signals

\* Mutant: the 'auto' length is taken from the last signal collected.
AutoLength_last_collected(signals) ==
    IF signals # <<>>
    THEN LET last_signal == signals[Len(signals)]
         IN (start_bit(last_signal) + last_signal.length + 7) \div 8
    ELSE 0

\* lines 225-229
AutoLength(signals) ==
    IF signals # <<>>
    THEN LET last_signal == sorted_by_start_bit(signals)[Len(signals)]
         IN (start_bit(last_signal) + last_signal.length + 7) \div 8
    ELSE 0

\* The Message object: the arguments of lines 233-245; signals as the
\* sort_signals policy leaves them.
Message(frame_id, is_extended_frame, name, length, senders, cycle_time, signals, comment, bus_name, sort_signals) ==
    [frame_id |-> frame_id, is_extended_frame |-> is_extended_frame, name |-> name,
     length |-> length, unused_bit_pattern |-> 255, senders |-> senders,
     cycle_time |-> cycle_time, signals |-> ApplySort(sort_signals, signals),
     comment |-> comment, bus_name |-> bus_name]

\* lines 171-245
_load_message_element(message, bus_name, nodes, sort_signals) ==
    LET attrib == MessageAttrib(message)
        frame_id == IF attrib.id = None THEN None ELSE Some(int0(attrib.id[1]))
        is_extended_frame == attrib.format # None /\ attrib.format[1] = "extended"
        length == IF attrib.length = None THEN AUTO ELSE attrib.length[1]
        interval == IF attrib.interval = None THEN None ELSE Some(int(attrib.interval[1]))
        senders == IF message.producer = None THEN <<>>
                   ELSE ResolveRefs(message.producer[1], nodes)
        signals == CollectSignals(message.children, nodes)
    IN Message(frame_id, is_extended_frame, attrib.name,
               IF length = AUTO THEN AutoLength(signals) ELSE int(length),
               senders, interval, signals, message.notes, bus_name, sort_signals)

\* the exception _load_message_element ends with, if any
MessageRaises(message, nodes, sort_signals) ==
    LET muxes == ChildrenTagged(message.children, "Multiplex")
        plain == ChildrenTagged(message.children, "Signal")
        length == IF message.length = None THEN AUTO ELSE message.length[1]
        loading == FirstError(<<
            IF message.id # None /\ ~IsIntBase0(message.id[1]) THEN Raise("ValueError") ELSE None,
            IF message.interval # None /\ ~IsInt(message.interval[1]) THEN Raise("ValueError") ELSE None,
            IF message.producer = None THEN None ELSE RefsRaise(message.producer[1], nodes) >>
            \o [i \in 1..Len(muxes) |-> MultiplexRaises(muxes[i], nodes)]
            \o [i \in 1..Len(plain) |-> SignalRaises(plain[i].signal, nodes)])
        signals == CollectSignals(message.children, nodes)
        unplaced == \E i \in 1..Len(signals) : signals[i].start = None
    IN IF loading # None THEN loading
       \* lines 226-227: None is neither ordered nor added
       ELSE IF length = AUTO /\ unplaced THEN Raise("TypeError")
       ELSE IF length # AUTO /\ ~IsInt(length) THEN Raise("ValueError")
       \* sorting by start bit compares the start bits of two signals
       ELSE IF sort_signals = "sort_signals_by_start_bit" /\ unplaced /\ Len(signals) >= 2
            THEN Raise("TypeError")
       ELSE None

\* The Bus, Node and InternalDatabase objects of lines 488 and 498-504.
Bus(name, baudrate) == [name |-> name, baudrate |-> baudrate]
Node(name) == [name |-> name, comment |-> None]
InternalDatabase(messages, nodes, buses, version) ==
    [messages |-> messages, nodes |-> nodes, buses |-> buses, version |-> version]

\* lines 486-496 for one Bus element: the Bus and its messages
LoadBusElement(bus, nodes, sort_signals) ==
    LET bus_name == bus.name[1]
        bus_baudrate == IF bus.baudrate = None THEN 500000 ELSE int(bus.baudrate[1])
    IN [bus |-> Bus(bus_name, bus_baudrate),
        messages |-> [i \in 1..Len(bus.messages) |->
            _load_message_element(bus.messages[i], Some(bus_name), nodes, sort_signals)]]

BusRaises(bus, nodes, sort_signals) ==
    FirstError(<<
        IF bus.name = None THEN Raise("KeyError") ELSE None,
        IF bus.baudrate # None /\ ~IsInt(bus.baudrate[1]) THEN Raise("ValueError") ELSE None >>
        \o [i \in 1..Len(bus.messages) |-> MessageRaises(bus.messages[i], nodes, sort_signals)])

(***************************************************************************)
(* KCD codec: dump                                                         *)
(***************************************************************************)
\* str(x) of an int or None
StrOf(x) == IF x = None THEN <<"N", "o", "n", "e">> ELSE str(x[1])

\* line 285: signal.byte_order[:-7], on the byte orders line 76 forms
EndianessValues == {"little", "big", "motorola"}
StripEndian(byte_order) == CHOOSE v \in EndianessValues : v \o "_endian" = byte_order

\* lines 426-429: node_refs[node.name] = node_id, ids counted from 1
RECURSIVE _dump_nodes_refs(_, _, _)
_dump_nodes_refs(nodes, node_id, node_refs) ==
    IF nodes = <<>> THEN node_refs
    ELSE _dump_nodes_refs(Tail(nodes), node_id + 1,
                          DictSet(node_refs, Head(nodes).name, node_id))
\* Mutant: the node ids are counted from 0.
_dump_nodes_from_zero(nodes) ==
    [i \in 1..Len(nodes) |-> NodeElement(Some(str(i - 1)), Some(nodes[i].name))]

\* lines 427-428: the Node elements
_dump_nodes(nodes) ==
    [i \in 1..Len(nodes) |-> NodeElement(Some(str(i)), Some(nodes[i].name))]

\* lines 295-298 and 394-397: one NodeRef per name, id=str(node_refs[name])
DumpRefs(names, node_refs) ==
    [i \in 1..Len(names) |-> Some(str(node_refs[names[i][1]]))]
\* node_refs[name] raises KeyError for a name that is no key, None included
RefsDumpRaise(names, node_refs) ==
    IF \E i \in 1..Len(names) : names[i] = None \/ names[i][1] \notin DOMAIN node_refs
    THEN Raise("KeyError") ELSE None

\* lines 301-332: the Value element, appended only if it has attributes
DumpValue(signal) ==
    LET type_name == IF signal.is_float
                     THEN (IF signal.length = 32 THEN Some("single") ELSE Some("double"))
                     ELSE IF signal.is_signed THEN Some("signed")
                     ELSE None
        value == ValueElement(
                    IF signal.minimum # None THEN Some(StrOf(signal.minimum)) ELSE None,
                    IF signal.maximum # None THEN Some(StrOf(signal.maximum)) ELSE None,
                    IF signal.scale # 1 THEN Some(str(signal.scale)) ELSE None,
                    IF signal.offset # 0 THEN Some(str(signal.offset)) ELSE None,
                    signal.unit,
                    type_name)
    IN IF value = ValueElement(None, None, None, None, None, None) THEN None ELSE Some(value)

\* lines 273-339
_dump_signal(signal, node_refs) ==
    SignalElement(
        signal.name,
        Some(StrOf(IF signal.start = None THEN None
                   ELSE Some(_start_bit(signal.start[1], signal.byte_order)))),
        IF signal.length # 1 THEN Some(str(signal.length)) ELSE None,
        IF signal.byte_order # "little_endian" THEN Some(StripEndian(signal.byte_order)) ELSE None,
        signal.comment,
        IF signal.receivers # <<>> THEN Some(DumpRefs(signal.receivers, node_refs)) ELSE None,
        DumpValue(signal),
        IF signal.choices # None /\ signal.choices # Some(<<>>)
        THEN Some([i \in 1..Len(signal.choices[1]) |->
                     LabelElement(Some(signal.choices[1][i][2]), Some(str(signal.choices[1][i][1])))])
        ELSE None)

SignalDumpRaises(signal, node_refs) == RefsDumpRaise(signal.receivers, node_refs)

\* the keys of signals_per_count, lines 356-363: the first selector value of
\* each signal of the multiplexer, in first-seen order
RECURSIVE CountsSeen(_, _)
CountsSeen(members, seen) ==
    IF members = <<>> THEN seen
    ELSE LET multiplexer_id == Head(members).multiplexer_ids[1][1]
         IN CountsSeen(Tail(members),
                       IF multiplexer_id \in Range(seen) THEN seen
                       ELSE Append(seen, multiplexer_id))

\* Mutant: a new group is started whenever the selector value changes.
GroupMembers_consecutive(members, multiplexer_id) ==
    LET first == CHOOSE i \in 1..Len(members) :
                    /\ members[i].multiplexer_ids[1][1] = multiplexer_id
                    /\ \A j \in 1..(i - 1) : members[j].multiplexer_ids[1][1] # multiplexer_id
        run == {n \in first..Len(members) :
                   \A j \in first..n : members[j].multiplexer_ids[1][1] = multiplexer_id}
    IN SubSeq(members, first, first + Cardinality(run) - 1)

\* lines 362-363: signals_per_count[multiplexer_id], in the order appended
GroupMembers(members, multiplexer_id) ==
    SelectSeq(members, LAMBDA m : m.multiplexer_ids[1][1] = multiplexer_id)

\* lines 355-369 (and 342-353 for each group)
_dump_mux_groups(multiplexer_name, signals, node_refs) ==
    LET members == SelectSeq(signals, LAMBDA sig : sig.multiplexer_signal = multiplexer_name)
        counts == CountsSeen(members, <<>>)
    IN [g \in 1..Len(counts) |->
          LET multiplexed_signals == GroupMembers(members, counts[g])
          IN MuxGroupElement(Some(str(counts[g])),
                 [i \in 1..Len(multiplexed_signals) |->
                     _dump_signal(multiplexed_signals[i], node_refs)])]

MuxGroupsDumpRaise(multiplexer_name, signals, node_refs) ==
    LET members == SelectSeq(signals, LAMBDA sig : sig.multiplexer_signal = multiplexer_name)
    IN \* line 362: None[0]
       IF \E i \in 1..Len(members) : members[i].multiplexer_ids = None
       THEN Raise("TypeError")
       ELSE FirstError([i \in 1..Len(members) |-> SignalDumpRaises(members[i], node_refs)])

\* lines 399-403
DumpSignals(message, sort_signals) == ApplySort(sort_signals, message.signals)

\* lines 405-418: the Multiplex and Signal children
DumpChildren(signals, node_refs) ==
    LET visited == SelectSeq(signals,
                       LAMBDA sig : sig.is_multiplexer \/ sig.multiplexer_ids = None)
    IN [i \in 1..Len(visited) |->
          IF visited[i].is_multiplexer
          THEN ChildElement("Multiplex", _dump_signal(visited[i], node_refs),
                            _dump_mux_groups(visited[i].name, signals, node_refs))
          ELSE ChildElement("Signal", _dump_signal(visited[i], node_refs), <<>>)]

\* lines 372-418
_dump_message(message, node_refs, sort_signals) ==
    MessageElement(
        message.name,
        Some(Hex03(message.frame_id[1])),
        IF message.is_extended_frame THEN Some("extended") ELSE None,
        Some(str(message.length)),
        IF message.cycle_time # None THEN Some(str(message.cycle_time[1])) ELSE None,
        message.comment,
        IF message.senders # <<>> THEN Some(DumpRefs(message.senders, node_refs)) ELSE None,
        DumpChildren(DumpSignals(message, sort_signals), node_refs))

MessageDumpRaises(message, node_refs, sort_signals) ==
    LET signals == DumpSignals(message, sort_signals)
        visited == SelectSeq(signals,
                       LAMBDA sig : sig.is_multiplexer \/ sig.multiplexer_ids = None)
    IN FirstError(<<
        \* line 373: format(None, '03X')
        IF message.frame_id = None THEN Raise("TypeError") ELSE None,
        RefsDumpRaise(message.senders, node_refs),
        \* line 401: sorting by start bit compares the start bits of two signals
        IF /\ sort_signals = "sort_signals_by_start_bit"
           /\ Len(message.signals) >= 2
           /\ \E i \in 1..Len(message.signals) : message.signals[i].start = None
        THEN Raise("TypeError") ELSE None >>
        \o Flatten([i \in 1..Len(visited) |->
             <<SignalDumpRaises(visited[i], node_refs),
               IF visited[i].is_multiplexer
               THEN MuxGroupsDumpRaise(visited[i].name, signals, node_refs)
               ELSE None>>]))

\* line 461: ElementTree.tostring raises TypeError on an attribute that is None
UnnamedIn(message) ==
    \/ message.name = None
    \/ \E i \in 1..Len(message.signals) : message.signals[i].name = None

\* lines 439-461. The tree is the one the returned text parses to: the xmlns
\* attribute of line 450 puts every tag into NAMESPACE, and the white space
\* _indent_xml adds lies between elements only.
dump_string(database, sort_signals) ==
    LET node_refs == _dump_nodes_refs(database.nodes, 1, <<>>)
    IN RootElement(
          ROOT_TAG,
          IF database.version # None THEN Some([version |-> database.version]) ELSE None,
          _dump_nodes(database.nodes),
          <<BusElement(Some("Bus"), None,
                [i \in 1..Len(database.messages) |->
                    _dump_message(database.messages[i], node_refs, sort_signals)])>>)

\* the exception dump_string ends with, if any
DumpRaises(database, sort_signals) ==
    LET node_refs == _dump_nodes_refs(database.nodes, 1, <<>>)
    IN FirstError(
        [i \in 1..Len(database.messages) |->
            MessageDumpRaises(database.messages[i], node_refs, sort_signals)]
        \o <<IF \E i \in 1..Len(database.messages) : UnnamedIn(database.messages[i])
             THEN Raise("TypeError") ELSE None>>)

(***************************************************************************)
(* KCD codec: load_string, dump_string, load_string as a run               *)
(***************************************************************************)
KcdIdle ==
    /\ kcd_pc = "idle" /\ pass = 0 /\ root = <<>>
    /\ load_sort = "None" /\ dump_sort = "None"
    /\ ls_nodes = <<>> /\ ls_version = None /\ ls_buses = <<>> /\ ls_messages = <<>>
    /\ bi = 1 /\ db = None /\ loaded = None /\ dumped = None /\ error = None

\* Mutant: the namespace of the root tag is not looked at.
RootTagOk_any_namespace(tag) == tag \in {ROOT_TAG, "NetworkDefinition"}

\* line 472: root.tag != ROOT_TAG raises
RootTagOk(tag) == tag = ROOT_TAG

\* lines 469-473: the root tag is checked before anything is built
ParseRoot ==
    /\ kcd_pc = "root"
    /\ IF ~RootTagOk(root.tag)
       THEN kcd_pc' = "raised" /\ error' = Raise("ValueError")
       ELSE kcd_pc' = "nodes" /\ error' = error
    /\ UNCHANGED <<pass, root, load_sort, dump_sort, ls_nodes, ls_version, ls_buses,
                   ls_messages, bi, db, loaded, dumped>>

\* lines 475-483: the Node attributes and the version
LoadNodes ==
    /\ kcd_pc = "nodes"
    /\ ls_nodes' = root.nodes
    /\ ls_buses' = <<>>
    /\ ls_messages' = <<>>
    /\ ls_version' = IF root.document = None THEN None ELSE root.document[1].version
    /\ bi' = 1
    /\ kcd_pc' = "buses"
    /\ UNCHANGED <<pass, root, load_sort, dump_sort, db, loaded, dumped, error>>

\* lines 485-496, one Bus element per step
LoadBus ==
    /\ kcd_pc = "buses"
    /\ bi <= Len(root.buses)
    /\ LET bus == root.buses[bi]
           raised == BusRaises(bus, ls_nodes, load_sort)
       IN IF raised # None
          THEN /\ kcd_pc' = "raised" /\ error' = raised
               /\ UNCHANGED <<ls_buses, ls_messages, bi>>
          ELSE /\ ls_buses' = Append(ls_buses, LoadBusElement(bus, ls_nodes, load_sort).bus)
               /\ ls_messages' = ls_messages \o LoadBusElement(bus, ls_nodes, load_sort).messages
               /\ bi' = bi + 1
               /\ UNCHANGED <<kcd_pc, error>>
    /\ UNCHANGED <<pass, root, load_sort, dump_sort, ls_nodes, ls_version, db, loaded, dumped>>

\* lines 498-504: node['name'] raises KeyError on a Node without a name
LoadReturn ==
    /\ kcd_pc = "buses"
    /\ bi > Len(root.buses)
    /\ IF \E i \in 1..Len(ls_nodes) : ls_nodes[i].name = None
       THEN /\ kcd_pc' = "raised" /\ error' = Raise("KeyError")
            /\ UNCHANGED <<db, loaded>>
       ELSE /\ db' = Some(InternalDatabase(ls_messages,
                                           [i \in 1..Len(ls_nodes) |-> Node(ls_nodes[i].name[1])],
                                           ls_buses, ls_version))
            /\ loaded' = IF pass = 1 THEN db' ELSE loaded
            /\ kcd_pc' = IF pass = 1 THEN "loaded" ELSE "done"
            /\ error' = error
    /\ UNCHANGED <<pass, root, load_sort, dump_sort, ls_nodes, ls_version, ls_buses,
                   ls_messages, bi, dumped>>

\* lines 439-461, and the text handed to the second load_string
DumpString ==
    /\ kcd_pc = "loaded"
    /\ LET raised == DumpRaises(db[1], dump_sort)
       IN IF raised # None
          THEN /\ kcd_pc' = "raised" /\ error' = raised
               /\ UNCHANGED <<pass, root, dumped>>
          ELSE /\ dumped' = Some(dump_string(db[1], dump_sort))
               /\ root' = dumped'[1]
               /\ pass' = 2
               /\ kcd_pc' = "root"
               /\ error' = error
    /\ UNCHANGED <<load_sort, dump_sort, ls_nodes, ls_version, ls_buses, ls_messages,
                   bi, db, loaded>>

(***************************************************************************)
(* KCD codec: the documents loaded                                         *)
(***************************************************************************)
\* Most Bus elements of a document, most Signal children of a message and
\* most MuxGroups of a Multiplex in the documents tried.
MaxBuses == 2
MaxSignals == 3
MaxGroups == 3

\* the text of an attribute holding the decimal integer n
T(n) == Some(str(n))

\* two declared nodes; 9 is the id of no node
DeclaredNodes == <<NodeElement(T(1), Some("Node1")), NodeElement(T(5), Some("Node2"))>>
\* Producer or Consumer: absent, or the ids of its NodeRefs
RefLists == {None, Some(<<>>), Some(<<T(1)>>), Some(<<T(5), T(1)>>),
             Some(<<T(9)>>), Some(<<T(1), T(9)>>)}

PlainSignal(name, off, length, endianess) ==
    SignalElement(Some(name), off, length, endianess, None, None, None, None)
OneSignal(signal) == <<ChildElement("Signal", signal, <<>>)>>
PlainMessage(name, id, length, children) ==
    MessageElement(Some(name), id, None, length, None, None, None, children)
Document(nodes, buses) ==
    RootElement(ROOT_TAG, Some([version |-> Some("1.0")]), nodes, buses)
OneMessage(nodes, message) ==
    Document(nodes, <<BusElement(Some("Bus"), None, <<message>>)>>)
SimpleMessage ==
    PlainMessage("Message1", Some(Hex03(1)), T(8), OneSignal(PlainSignal("Signal1", T(0), T(8), None)))

\* ---- networks: the Document element, the nodes and the buses vary
MotorMessage ==
    PlainMessage("Message7", Some(Hex03(7)), T(8), OneSignal(PlainSignal("Signal7", T(0), T(8), None)))
BusPool ==
    UNION {{BusElement(Some(b[1]), baudrate, messages) :
               baudrate \in {None, T(250000)}, messages \in {<<>>, <<b[2]>>}} :
           b \in {<<"Bus", SimpleMessage>>, <<"Motor", MotorMessage>>}}
NetworkDocs ==
    {RootElement(ROOT_TAG, doc, nodes, buses) :
        doc \in {None, Some([version |-> None]), Some([version |-> Some("1.0")])},
        nodes \in {<<>>, DeclaredNodes},
        buses \in SeqsUpTo(BusPool, MaxBuses)}

\* ---- a root element that is not NetworkDefinition of the KCD namespace
WrongRootDocs ==
    {RootElement(tag, None, DeclaredNodes, <<BusElement(Some("Bus"), None, <<SimpleMessage>>)>>) :
        tag \in {"NetworkDefinition", "{" \o NAMESPACE \o "}Network"}}

\* ---- messages: the attributes, the notes and the producer vary
MessageDocs ==
    {OneMessage(nodes,
        MessageElement(Some("Message1"), idf[1], idf[2], length, timing[1], timing[2], producer,
            OneSignal(SignalElement(Some("Signal1"), T(0), T(8), None,
                                    None, Some(<<T(5)>>), None, None)))) :
        nodes \in {<<>>, DeclaredNodes},
        idf \in {<<Some(Hex03(1)), None>>, <<T(16), Some("standard")>>,
                 <<Some(Hex03(536870911)), Some("extended")>>},
        length \in {None, Some(AUTO), T(8)},
        timing \in {<<None, None>>, <<T(100), Some("Note message 1.")>>},
        producer \in RefLists}

\* ---- one signal: its attributes, Value, LabelSet, Notes and Consumer vary
ValuePool ==
    {None,
     Some(ValueElement(None, None, None, None, None, Some("signed"))),
     Some(ValueElement(None, None, None, None, None, Some("unsigned"))),
     Some(ValueElement(None, None, None, None, None, Some("single"))),
     Some(ValueElement(None, None, None, None, Some("V"), Some("double"))),
     Some(ValueElement(T(0), T(100), T(2), T(-5), Some("V"), None)),
     Some(ValueElement(None, None, T(1), T(0), None, None))}
LabelPool ==
    {None,
     Some(<<LabelElement(Some("label1"), T(0)), LabelElement(Some("label2"), T(1))>>),
     Some(<<LabelElement(Some("on"), T(1)), LabelElement(Some("off"), T(0)),
            LabelElement(Some("ON"), T(1))>>)}
SignalDocs ==
    {OneMessage(DeclaredNodes,
        PlainMessage("Message1", Some(Hex03(1)), T(8),
            OneSignal(SignalElement(Some("Signal1"), T(8), form[1], form[2],
                                    notes, consumer, value, labelset)))) :
        form \in {<<T(32), None>>, <<T(1), Some("little")>>, <<None, Some("big")>>},
        notes \in {None, Some("Note signal 1.")},
        consumer \in RefLists,
        value \in ValuePool,
        labelset \in LabelPool}

\* ---- layouts: up to MaxSignals signals, named by position; the message
\* length is given, 'auto' or absent
SignalNames == <<"S1", "S2", "S3", "S4", "S5", "S6">>
SignalShapes ==
    {<<T(0), T(8), None>>, <<T(8), T(12), None>>, <<T(12), None, Some("little")>>,
     <<T(0), T(32), None>>, <<T(7), T(8), Some("big")>>, <<T(0), T(8), Some("big")>>,
     <<T(20), T(4), Some("big")>>}
LayoutDocs ==
    {OneMessage(DeclaredNodes,
        PlainMessage("Message1", Some(Hex03(1)), length,
            [i \in 1..Len(shapes) |->
                ChildElement("Signal",
                    PlainSignal(SignalNames[i], shapes[i][1], shapes[i][2], shapes[i][3]),
                    <<>>)])) :
        length \in {None, Some(AUTO), T(8)},
        shapes \in SeqsUpTo(SignalShapes, MaxSignals)}

\* ---- multiplexers: Mux1 with up to MaxGroups MuxGroups of one or two
\* signals, between optional Signal children and an optional second Multiplex
MemberNames == <<<<"A", "B">>, <<"C", "D">>, <<"E", "F">>, <<"G", "H">>, <<"I", "J">>>>
MuxGroupOf(g, count, n) ==
    MuxGroupElement(T(count),
        [k \in 1..n |-> PlainSignal(MemberNames[g][k], T(8 * (k - 1)), T(8), None)])
Mux1(groups) ==
    ChildElement("Multiplex", PlainSignal("Mux1", T(16), T(2), None),
                 [g \in 1..Len(groups) |-> MuxGroupOf(g, groups[g][1], groups[g][2])])
Mux2 ==
    ChildElement("Multiplex", PlainSignal("Mux2", T(18), None, None),
                 <<MuxGroupElement(T(0), <<PlainSignal("Signal5", T(19), None, None)>>)>>)
MuxDocs ==
    {OneMessage(DeclaredNodes,
        PlainMessage("Message2", Some(Hex03(2)), Some(AUTO),
                     before \o <<Mux1(groups)>> \o second \o after)) :
        before \in {<<>>, OneSignal(PlainSignal("Signal0", T(20), T(4), None))},
        groups \in SeqsUpTo({0, 1} \X {1, 2}, MaxGroups),
        second \in {<<>>, <<Mux2>>},
        after \in {<<>>, OneSignal(PlainSignal("Signal6", T(24), T(8), None))}}

\* ---- irregular documents: one attribute is missing
IrregularDocs ==
    {Document(DeclaredNodes, <<BusElement(None, None, <<SimpleMessage>>)>>),
     Document(<<NodeElement(T(1), None)>>, <<BusElement(Some("Bus"), None, <<SimpleMessage>>)>>),
     OneMessage(DeclaredNodes, PlainMessage("Message1", Some(Hex03(1)), T(8),
         OneSignal(SignalElement(Some("Signal1"), None, T(8), None, None, None, None, None)))),
     OneMessage(DeclaredNodes, PlainMessage("Message1", Some(Hex03(1)), T(8),
         OneSignal(SignalElement(Some("Signal1"), None, T(8), Some("big"), None, None, None, None)))),
     OneMessage(DeclaredNodes, PlainMessage("Message1", Some(Hex03(1)), T(8),
         OneSignal(SignalElement(Some("Signal1"), T(0), T(8), None, None, Some(<<None>>), None, None)))),
     OneMessage(DeclaredNodes, PlainMessage("Message1", Some(Hex03(1)), T(8),
         OneSignal(SignalElement(Some("Signal1"), T(0), T(8), None, None, None, None,
                                 Some(<<LabelElement(Some("label1"), None)>>))))),
     OneMessage(DeclaredNodes, PlainMessage("Message1", Some(Hex03(1)), T(8),
         <<ChildElement("Multiplex", PlainSignal("Mux1", T(16), T(2), None),
                        <<MuxGroupElement(None, <<PlainSignal("A", T(0), T(8), None)>>)>>)>>))}

\* ---- attributes the loader does not know, on a Message, a Signal, its
\* Value and a Multiplex, each present or not
WithUnknown(element, present) ==
    IF present THEN element @@ [triggered |-> Some("true")] ELSE element
UnknownAttributeDocs ==
    {OneMessage(DeclaredNodes,
        WithUnknown(
            PlainMessage("Message1", Some(Hex03(1)), T(8),
                <<ChildElement("Signal",
                      WithUnknown(
                          SignalElement(Some("Signal1"), T(24), T(8), None, None, None,
                              Some(WithUnknown(
                                  ValueElement(T(0), T(100), T(2), T(-5), Some("V"), None),
                                  on[3])),
                              None),
                          on[2]),
                      <<>>),
                  ChildElement("Multiplex",
                      WithUnknown(PlainSignal("Mux1", T(16), T(2), None), on[4]),
                      <<MuxGroupOf(1, 0, 2)>>)>>),
            on[1])) :
     on \in [1..4 -> BOOLEAN]}

\* load_string's default policy and dump_string's, after lines 443-444
DefaultLoadSort == "sort_signals_by_start_bit"
DefaultDumpSort == "None"

KcdInit ==
    /\ kcd_pc = "root"
    /\ pass = 1
    /\ \/ /\ root \in NetworkDocs \cup WrongRootDocs \cup MessageDocs \cup SignalDocs
                      \cup IrregularDocs \cup UnknownAttributeDocs
          /\ load_sort = DefaultLoadSort
          /\ dump_sort = DefaultDumpSort
       \/ /\ root \in LayoutDocs \cup MuxDocs
          /\ load_sort \in SortPolicies
          /\ dump_sort \in SortPolicies
    /\ ls_nodes = <<>> /\ ls_version = None /\ ls_buses = <<>> /\ ls_messages = <<>>
    /\ bi = 1
    /\ db = None /\ loaded = None /\ dumped = None /\ error = None

(***************************************************************************)
(* Claims about _start_bit (SpecBits)                                      *)
(***************************************************************************)
\* C5: converting a format offset to the start bit on load and the start bit
\* back to an offset on dump returns the offset, for both byte orders; the
\* start bit is the offset itself for little_endian and, for big_endian, the
\* bit of the same byte mirrored (bit k of the byte becomes bit 7 - k).
C5_StartBitInvolution ==
    /\ bits_pc = "dumped" => b_back = b_offset
    /\ bits_pc \in {"canonical", "dumped"} =>
          IF b_byte_order = "little_endian"
          THEN b_start = b_offset
          ELSE /\ b_start \div 8 = b_offset \div 8
               /\ (b_start % 8) + (b_offset % 8) = 7

C5_Witness ==
    /\ bits_pc = "dumped" /\ b_byte_order = "big_endian"
    /\ b_offset = 12 /\ b_start = 11 /\ b_back = 12

(***************************************************************************)
(* Claims about the gateway resolver (SpecGateway)                         *)
(***************************************************************************)
\* The (source, gateway name) pairs the input gives for a target.
InputPairs(target) ==
    {<<gateways[g].pdu_triggering_routes[r][1], gateways[g].name>> :
        <<g, r>> \in {gr \in (1..Len(gateways)) \X (1..MaxRoutes) :
                        /\ gr[2] <= Len(gateways[gr[1]].pdu_triggering_routes)
                        /\ gateways[gr[1]].pdu_triggering_routes[gr[2]][2] = target}}

\* C2: when several (source, gateway) pairs claim the same target, the direct
\* map keeps the lexicographically smallest of them.
C2_KeepsSmallestPair ==
    gw_pc \in {"resolve", "returned"} =>
        \A t \in DOMAIN target_to_source :
            \A p \in InputPairs(t) : PairLeq(target_to_source[t], p)

\* The ids reached from t by one or more steps target -> source of the direct map.
RECURSIVE BackFrom(_, _)
BackFrom(frontier, reached) ==
    LET next == {target_to_source[x][1] : x \in frontier \cap DOMAIN target_to_source}
    IN IF next \subseteq reached THEN reached
       ELSE BackFrom(next \ reached, reached \cup next)
Sources(t) == BackFrom({t}, {})
\* The backward walk from t revisits an id: t lies on a cycle of the direct
\* map or leads into one.
Cyclic(t) == \E y \in {t} \cup Sources(t) : y \in Sources(y)

\* C3: a target whose backward walk revisits a route id has no entry in the
\* result, and nothing of its walk is stored.
C3_CycleRejected ==
    gw_pc = "returned" =>
        \A t \in DOMAIN target_to_source : Cyclic(t) => t \notin DOMAIN result

\* two ids forwarding to each other and a third id fed from that cycle
C3_Witness ==
    /\ gw_pc = "returned"
    /\ \E x, y, z \in DOMAIN target_to_source :
          /\ x # y /\ z # x /\ z # y
          /\ target_to_source[x][1] = y
          /\ target_to_source[y][1] = x
          /\ target_to_source[z][1] = x
          /\ {x, y, z} \cap DOMAIN result = {}

\* o is an origin and p names, origin first, the gateways of the hops of the
\* direct map that lead from o to t.
IsChain(o, p, t) ==
    /\ Len(p) >= 1
    /\ o \notin DOMAIN target_to_source
    /\ \E ns \in [1..Len(p) + 1 -> Range(RouteIds)] :
          /\ ns[1] = o
          /\ ns[Len(p) + 1] = t
          /\ \A i \in 1..Len(p) :
                /\ ns[i + 1] \in DOMAIN target_to_source
                /\ target_to_source[ns[i + 1]] = <<ns[i], p[i]>>

\* C4: a target whose backward walk ends at an id with no direct-map entry is
\* mapped to (that origin, the gateways traversed in origin-to-target order).
C4_ChainResolved ==
    gw_pc = "returned" =>
        \A t \in DOMAIN target_to_source :
            ~Cyclic(t) =>
                /\ t \in DOMAIN result
                /\ IsChain(result[t][1], result[t][2], t)

\* G1:(a->b), G2:(b->c) resolve c to (a, [G1, G2])
C4_Witness ==
    /\ gw_pc = "returned"
    /\ gateways = <<Gateway("G1", <<<<"a", "b">>>>), Gateway("G2", <<<<"b", "c">>>>)>>
    /\ result["c"] = <<"a", <<"G1", "G2">>>>

\* The (source, target, gateway name) triples of the input.
InputTriples ==
    {<<gateways[g].pdu_triggering_routes[r][1], gateways[g].pdu_triggering_routes[r][2],
       gateways[g].name>> :
        <<g, r>> \in {gr \in (1..Len(gateways)) \X (1..MaxRoutes) :
                        gr[2] <= Len(gateways[gr[1]].pdu_triggering_routes)}}
InputTargets == {tr[2] : tr \in InputTriples}

\* C11: the mapping returned is a function of the set of input triples: the
\* direct map holds, for every target, the one extreme pair of the pairs the
\* triples give it, and the result holds exactly the targets whose walk over
\* that map ends at an origin, each with the chain the map fixes. The order of
\* the gateways and of the route pairs does not enter.
C11_OrderIndependent ==
    gw_pc = "returned" =>
        /\ DOMAIN target_to_source = InputTargets
        /\ \A t \in InputTargets :
              /\ target_to_source[t] \in {<<tr[1], tr[3]>> : tr \in {x \in InputTriples : x[2] = t}}
              /\ \A tr \in InputTriples :
                    tr[2] = t => PairLeq(<<tr[1], tr[3]>>, target_to_source[t])
        /\ DOMAIN result = {t \in InputTargets : ~Cyclic(t)}
        /\ \A t \in DOMAIN result : IsChain(result[t][1], result[t][2], t)

\* the pair kept for c is scanned first, the pair dropped is scanned last
C11_Witness ==
    /\ gw_pc = "returned"
    /\ gateways = <<Gateway("G2", <<<<"b", "c">>>>), Gateway("G1", <<<<"a", "c">>>>)>>
    /\ target_to_source["c"] = <<"b", "G2">>
    /\ result["c"] = <<"b", <<"G2">>>>

\* The ids reached from the ids of frontier along route pairs source -> target.
RECURSIVE ForwardFrom(_, _)
ForwardFrom(frontier, reached) ==
    LET next == {tr[2] : tr \in {x \in InputTriples : x[1] \in frontier}}
    IN IF next \subseteq reached THEN reached
       ELSE ForwardFrom(next \ reached, reached \cup next)
\* route ids that are the target of no route pair
Origins == {tr[1] : tr \in InputTriples} \ InputTargets
ReachableFromOrigin == ForwardFrom(Origins, {})

\* C12: every target reachable from an ultimate origin along route pairs of
\* the input has an entry in the result.
C12_Coverage ==
    gw_pc = "returned" => ReachableFromOrigin \subseteq DOMAIN result

\* C12, amended: every target from which the pairs kept in the direct map lead
\* back to an id without entry has an entry in the result, with that id as origin.
C12_DirectMapCoverage ==
    gw_pc = "returned" =>
        \A t \in DOMAIN target_to_source :
            (Sources(t) \ DOMAIN target_to_source) # {} =>
                /\ t \in DOMAIN result
                /\ result[t][1] \in Sources(t) \ DOMAIN target_to_source

\* one gateway forwarding a -> b and b -> c: both targets are covered
C12_Witness ==
    /\ gw_pc = "returned"
    /\ gateways = <<Gateway("G1", <<<<"a", "b">>, <<"b", "c">>>>)>>
    /\ Origins = {"a"} /\ ReachableFromOrigin = {"b", "c"}
    /\ DOMAIN result = {"b", "c"}
    /\ result["b"][1] = "a" /\ result["c"][1] = "a"

\* the distinct route ids of the input
InputRouteIds == {tr[1] : tr \in InputTriples} \cup InputTargets

\* C14: the resolver ends without an error on every list of gateways: the
\* while loop of each target is entered at least once and at most as many
\* times as the input has distinct route ids, every iteration but a breaking
\* one appends a gateway, and at the return every target has been walked.
C14_WalkBounded ==
    /\ \A i \in 1..Len(walks) :
          /\ walks[i].steps >= 1
          /\ walks[i].steps <= Cardinality(InputRouteIds)
          /\ walks[i].steps = Len(walks[i].gateways_path) + (IF walks[i].looped THEN 1 ELSE 0)
    /\ gw_pc = "returned" =>
          /\ {walks[i].target : i \in 1..Len(walks)} = InputTargets
          /\ DOMAIN result \subseteq InputTargets

\* a cycle through all three route ids: the walk breaks in its third iteration
C14_Witness ==
    /\ gw_pc = "returned"
    /\ Cardinality(InputRouteIds) = 3
    /\ \E i \in 1..Len(walks) :
          walks[i].looped /\ walks[i].steps = 3 /\ walks[i].seen_sources = InputRouteIds
    /\ result = <<>>

\* C20: for every entry result[t] = (o, p), with (s, g) the pair the direct
\* map keeps for t: p is not empty and ends with g; if s has no direct-map
\* entry then o = s and p = [g]; otherwise s has an entry in the result and
\* result[s] = (o, p without its last element). The origin o has no
\* direct-map entry and is not t.
C20_SubRoutes ==
    gw_pc = "returned" =>
        \A t \in DOMAIN result :
            LET o == result[t][1]
                p == result[t][2]
                s == target_to_source[t][1]
                g == target_to_source[t][2]
            IN /\ Len(p) >= 1
               /\ p[Len(p)] = g
               /\ IF s \notin DOMAIN target_to_source
                  THEN o = s /\ p = <<g>>
                  ELSE /\ s \in DOMAIN result
                       /\ result[s] = <<o, SubSeq(p, 1, Len(p) - 1)>>
               /\ o \notin DOMAIN target_to_source
               /\ o # t

\* G2:(a->b), G1:(b->c): the entry of c extends the entry of b by G1
C20_Witness ==
    /\ gw_pc = "returned"
    /\ gateways = <<Gateway("G2", <<<<"a", "b">>>>), Gateway("G1", <<<<"b", "c">>>>)>>
    /\ result["b"] = <<"a", <<"G2">>>>
    /\ result["c"] = <<"a", <<"G2", "G1">>>>

(***************************************************************************)
(* Claims about the KCD codec (Spec)                                       *)
(***************************************************************************)
\* the Message elements of the document being loaded, in the order loaded
MessageElements == Flatten([b \in 1..Len(root.buses) |-> root.buses[b].messages])
\* the Signal and Multiplex elements of a Message element, MuxGroup members included
SignalElements(message) ==
    Flatten([c \in 1..Len(message.children) |->
        <<message.children[c].signal>> \o
        Flatten([g \in 1..Len(message.children[c].groups) |->
                    message.children[c].groups[g].signals])])
\* load_string has returned from the input document, nothing was dumped yet
FirstLoaded == kcd_pc = "loaded" /\ pass = 1

\* a database with each message's signal list as a set: the order of the
\* list is left out of the comparison
Fields(database) ==
    [database EXCEPT !.messages = [i \in 1..Len(database.messages) |->
        [database.messages[i] EXCEPT !.signals = Range(database.messages[i].signals)]]]

\* C1: loading what dump_string wrote for a database load_string returned
\* gives that database again (buses, nodes, version, messages, signals).
C1_RoundTrip == kcd_pc = "done" => Fields(db[1]) = Fields(loaded[1])

C7_MalformedRoot ==
    (root.tag # ROOT_TAG /\ kcd_pc # "root") =>
        /\ kcd_pc = "raised"
        /\ error = Some("ValueError")
        /\ db = None
        /\ ls_nodes = <<>> /\ ls_buses = <<>> /\ ls_messages = <<>>

C7_Witness ==
    /\ kcd_pc = "raised"
    /\ root.tag = "NetworkDefinition"
    /\ root.nodes # <<>> /\ root.buses # <<>>
    /\ db = None

\* the NodeRef ids of a Producer or Consumer that are ids of declared nodes
Resolvable(refs) ==
    IF refs = None THEN <<>>
    ELSE SelectSeq(refs[1], LAMBDA ref : \E n \in 1..Len(root.nodes) : root.nodes[n].id = ref)
DeclaredNames == {root.nodes[n].name : n \in 1..Len(root.nodes)}

\* C8: a NodeRef whose id is the id of no node leaves no entry: senders and
\* receivers hold names of declared nodes only, one per resolvable NodeRef.
C8_UnresolvedOmitted ==
    FirstLoaded =>
        \A i \in 1..Len(MessageElements) :
            LET message == db[1].messages[i]
                elements == SignalElements(MessageElements[i])
            IN /\ Range(message.senders) \subseteq DeclaredNames
               /\ Len(message.senders) = Len(Resolvable(MessageElements[i].producer))
               /\ \A k \in 1..Len(message.signals) :
                     /\ Range(message.signals[k].receivers) \subseteq DeclaredNames
                     /\ \E e \in 1..Len(elements) :
                           /\ elements[e].name = message.signals[k].name
                           /\ Len(message.signals[k].receivers) =
                                 Len(Resolvable(elements[e].consumer))

\* C9: dump_string does not raise on a database load_string returned.
C9_DumpTotal == ~(kcd_pc = "raised" /\ pass = 1 /\ loaded # None)

\* the names of a sequence of signals or Signal elements
Names(seq) == [k \in 1..Len(seq) |-> seq[k].name]
\* the position of the first of members whose selector value is count
FirstIndex(members, count) ==
    CHOOSE k \in 1..Len(members) :
        /\ members[k].multiplexer_ids = Some(<<count>>)
        /\ \A j \in 1..(k - 1) : members[j].multiplexer_ids # Some(<<count>>)

\* C10, the dumped element of one message: every selector has one Multiplex
\* element; the signals that name the selector lie in its MuxGroups, one
\* group per selector value, groups in first-seen order of the values,
\* members in the order of the signal list dumped, each signal once.
MuxGroupsOf(message, element) ==
    LET signals == DumpSignals(message, dump_sort)
    IN \A k \in 1..Len(signals) :
          signals[k].is_multiplexer =>
             LET members == SelectSeq(signals,
                                LAMBDA sig : sig.multiplexer_signal = signals[k].name)
                 muxes == SelectSeq(element.children,
                                LAMBDA c : c.tag = "Multiplex" /\ c.signal.name = signals[k].name)
             IN /\ Len(muxes) = 1
                /\ LET groups == muxes[1].groups
                       count(g) == int(groups[g].count[1])
                   IN /\ \A g, h \in 1..Len(groups) : g # h => count(g) # count(h)
                      /\ \A g \in 1..Len(groups) :
                            /\ groups[g].signals # <<>>
                            /\ Names(groups[g].signals) =
                                 Names(SelectSeq(members,
                                     LAMBDA m : m.multiplexer_ids = Some(<<count(g)>>)))
                      /\ \A g, h \in 1..Len(groups) :
                            g < h =>
                               FirstIndex(members, count(g))
                               < FirstIndex(members, count(h))
                      /\ \A m \in 1..Len(members) :
                            Cardinality({<<g, j>> \in (1..Len(groups)) \X (1..Len(members)) :
                                            /\ j <= Len(groups[g].signals)
                                            /\ groups[g].signals[j].name = members[m].name}) = 1

\* the selector linkage of the signals of a message, by signal name
Linkage(message) ==
    {<<message.signals[k].name, message.signals[k].is_multiplexer,
       message.signals[k].multiplexer_ids, message.signals[k].multiplexer_signal>> :
        k \in 1..Len(message.signals)}

\* C10: dump groups the multiplexed signals as described above, and loading
\* the dumped document gives every signal the selector and the selector value
\* it had (signal names are unique within a message).
C10_MuxRoundTrip ==
    /\ dumped # None =>
          \A i \in 1..Len(loaded[1].messages) :
              MuxGroupsOf(loaded[1].messages[i], dumped[1].buses[1].messages[i])
    /\ kcd_pc = "done" =>
          /\ Len(db[1].messages) = Len(loaded[1].messages)
          /\ \A i \in 1..Len(loaded[1].messages) :
                Linkage(db[1].messages[i]) = Linkage(loaded[1].messages[i])

\* one selector, groups 0 -> {A, B} and 1 -> {C, D}
C10_Witness ==
    /\ kcd_pc = "done"
    /\ Len(db[1].messages) = 1
    /\ {l \in Linkage(db[1].messages[1]) : l[4] # None} =
          {<<Some("A"), FALSE, Some(<<0>>), Some("Mux1")>>,
           <<Some("B"), FALSE, Some(<<0>>), Some("Mux1")>>,
           <<Some("C"), FALSE, Some(<<1>>), Some("Mux1")>>,
           <<Some("D"), FALSE, Some(<<1>>), Some("Mux1")>>}
    /\ Linkage(db[1].messages[1]) = Linkage(loaded[1].messages[1])
    /\ LET mux == dumped[1].buses[1].messages[1].children[1]
       IN /\ mux.tag = "Multiplex"
          /\ [g \in 1..Len(mux.groups) |-> Names(mux.groups[g].signals)] =
                <<<<Some("A"), Some("B")>>, <<Some("C"), Some("D")>>>>

\* C13: load_string raises only on a root tag other than ROOT_TAG; on every
\* other document it returns a database.
C13_OnlyRootAborts ==
    (kcd_pc = "raised" /\ pass = 1 /\ loaded = None) => root.tag # ROOT_TAG

\* name, is_multiplexer, multiplexer_ids and multiplexer_signal of the
\* signals of a message, in list order
LinkageSeq(message) ==
    [k \in 1..Len(message.signals) |->
        <<message.signals[k].name, message.signals[k].is_multiplexer,
          message.signals[k].multiplexer_ids, message.signals[k].multiplexer_signal>>]
\* what a Multiplex element stands for: its selector, then the members of its
\* MuxGroups in document order, each with its group's count and the selector's name
MultiplexLinkage(mux) ==
    <<<<mux.signal.name, TRUE, None, None>>>> \o
    Flatten([g \in 1..Len(mux.groups) |->
        [j \in 1..Len(mux.groups[g].signals) |->
            <<mux.groups[g].signals[j].name, FALSE,
              Some(<<int(mux.groups[g].count[1])>>), mux.signal.name>>]])

\* C15: every Multiplex element loads as its selector, flagged is_multiplexer,
\* followed by the members of its MuxGroups in document order, each member with
\* multiplexer_ids = [count of its group] and multiplexer_signal = the
\* selector's name (the list as collected is seen when no sort policy is
\* given); every multiplexed signal of a loaded message names exactly one
\* signal of that message, and that signal is flagged is_multiplexer.
C15_MultiplexLoad ==
    FirstLoaded =>
        \A i \in 1..Len(MessageElements) :
            LET message == db[1].messages[i]
                muxes == ChildrenTagged(MessageElements[i].children, "Multiplex")
                expected == Flatten([x \in 1..Len(muxes) |-> MultiplexLinkage(muxes[x])])
            IN /\ Range(expected) \subseteq Range(LinkageSeq(message))
               /\ load_sort = "None" =>
                     SubSeq(LinkageSeq(message), 1, Len(expected)) = expected
               /\ \A k \in 1..Len(message.signals) :
                     message.signals[k].multiplexer_signal # None =>
                        /\ message.signals[k].multiplexer_ids # None
                        /\ Len(message.signals[k].multiplexer_ids[1]) = 1
                        /\ Cardinality({j \in 1..Len(message.signals) :
                              message.signals[j].name = message.signals[k].multiplexer_signal}) = 1
                        /\ \A j \in 1..Len(message.signals) :
                              message.signals[j].name = message.signals[k].multiplexer_signal
                                 => message.signals[j].is_multiplexer

\* two Multiplex elements, the first with groups 0 -> A, B and 1 -> C, D
C15_Witness ==
    /\ FirstLoaded /\ load_sort = "None"
    /\ Len(db[1].messages) = 1
    /\ LinkageSeq(db[1].messages[1]) =
          << <<Some("Mux1"), TRUE, None, None>>,
             <<Some("A"), FALSE, Some(<<0>>), Some("Mux1")>>,
             <<Some("B"), FALSE, Some(<<0>>), Some("Mux1")>>,
             <<Some("C"), FALSE, Some(<<1>>), Some("Mux1")>>,
             <<Some("D"), FALSE, Some(<<1>>), Some("Mux1")>>,
             <<Some("Mux2"), TRUE, None, None>>,
             <<Some("Signal5"), FALSE, Some(<<0>>), Some("Mux2")>> >>

\* C16: without a sort policy the signals of a loaded message are in document
\* order: every Signal child and every Multiplex child (its selector, then its
\* members) at the place the child has among the children of the Message.
C16_DocumentOrder ==
    (FirstLoaded /\ load_sort = "None") =>
        \A i \in 1..Len(MessageElements) :
            Names(db[1].messages[i].signals) = Names(SignalElements(MessageElements[i]))

\* the NodeRef ids written for names: none without names, else one id per
\* name, the id of the Node element written with that name
RefsOf(refs, names, nodes) ==
    IF names = <<>> THEN refs = None
    ELSE /\ refs # None
         /\ Len(refs[1]) = Len(names)
         /\ \A k \in 1..Len(names) :
               \E n \in 1..Len(nodes) : nodes[n].id = refs[1][k] /\ nodes[n].name = names[k]

\* C17: the document dumped holds the Document element exactly when the
\* database has a version, one Node element per node in stored order with ids
\* 1, 2, 3, ..., and one Bus element holding every message of the database in
\* message order, whatever the number of buses; every NodeRef id written is
\* the id of the Node element of the sender's or receiver's name.
C17_DumpOrder ==
    dumped # None =>
        LET document == dumped[1]
            database == loaded[1]
        IN /\ document.document =
                 (IF database.version = None THEN None
                  ELSE Some([version |-> database.version]))
           /\ Len(document.nodes) = Len(database.nodes)
           /\ \A k \in 1..Len(database.nodes) :
                 /\ int(document.nodes[k].id[1]) = k
                 /\ document.nodes[k].name = Some(database.nodes[k].name)
           /\ Len(document.buses) = 1
           /\ document.buses[1].name = Some("Bus")
           /\ Len(document.buses[1].messages) = Len(database.messages)
           /\ \A i \in 1..Len(database.messages) :
                 LET element == document.buses[1].messages[i]
                     message == database.messages[i]
                     elements == SignalElements(element)
                 IN /\ element.name = message.name
                    /\ int0(element.id[1]) = message.frame_id[1]
                    /\ RefsOf(element.producer, message.senders, document.nodes)
                    /\ Len(elements) = Len(message.signals)
                    /\ \A k \in 1..Len(message.signals) :
                          \E e \in 1..Len(elements) :
                             /\ elements[e].name = message.signals[k].name
                             /\ RefsOf(elements[e].consumer, message.signals[k].receivers,
                                       document.nodes)

\* two buses with one message each are dumped as one Bus with both messages
C17_Witness ==
    /\ dumped # None
    /\ Len(loaded[1].buses) = 2 /\ Len(loaded[1].nodes) = 2
    /\ Names(loaded[1].messages) = <<Some("Message7"), Some("Message1")>>
    /\ Len(dumped[1].buses) = 1
    /\ Names(dumped[1].buses[1].messages) = <<Some("Message7"), Some("Message1")>>
    /\ dumped[1].document # None

\* an element without the attributes the loader has no branch for
KnownSignal(signal) ==
    SignalElement(signal.name, signal.offset, signal.length, signal.endianess,
        signal.notes, signal.consumer,
        IF signal.value = None THEN None
        ELSE Some(ValueElement(signal.value[1].min, signal.value[1].max,
                      signal.value[1].slope, signal.value[1].intercept,
                      signal.value[1].unit, signal.value[1].type)),
        signal.labelset)
KnownMessage(message) ==
    MessageElement(message.name, message.id, message.format, message.length,
        message.interval, message.notes, message.producer,
        [c \in 1..Len(message.children) |->
            ChildElement(message.children[c].tag, KnownSignal(message.children[c].signal),
                [g \in 1..Len(message.children[c].groups) |->
                    MuxGroupElement(message.children[c].groups[g].count,
                        [j \in 1..Len(message.children[c].groups[g].signals) |->
                            KnownSignal(message.children[c].groups[g].signals[j])])])])
\* some Message, Signal, Multiplex or Value element carries such an attribute
HasUnknown == \E i \in 1..Len(MessageElements) : KnownMessage(MessageElements[i]) # MessageElements[i]

\* C18: a document with attributes of unrecognised names on Message, Signal,
\* Multiplex or Value elements loads without an exception, to the database
\* that the document without these attributes loads to.
C18_UnknownAttributesIgnored ==
    (pass = 1 /\ HasUnknown) =>
        /\ kcd_pc # "raised"
        /\ FirstLoaded =>
              /\ Len(db[1].messages) = Len(MessageElements)
              /\ \A i \in 1..Len(MessageElements) :
                    db[1].messages[i] =
                        _load_message_element(KnownMessage(MessageElements[i]),
                            db[1].messages[i].bus_name, ls_nodes, load_sort)

\* all four elements carry the attribute; the signals are sorted by start bit
C18_Witness ==
    /\ FirstLoaded
    /\ Len(MessageElements) = 1
    /\ "triggered" \in DOMAIN MessageElements[1]
    /\ \A c \in 1..2 : "triggered" \in DOMAIN MessageElements[1].children[c].signal
    /\ "triggered" \in DOMAIN MessageElements[1].children[1].signal.value[1]
    /\ Names(db[1].messages[1].signals) = <<Some("A"), Some("B"), Some("Mux1"), Some("Signal1")>>
    /\ db[1].messages[1].signals[4].scale = 2

\* C19: the length derived for a message without length, or with length
\* 'auto', whose signals are all little endian covers every signal of the
\* message: start + length <= 8 * message length.
C19_LengthCoversSignals ==
    FirstLoaded =>
        \A i \in 1..Len(MessageElements) :
            LET message == db[1].messages[i]
            IN (/\ MessageElements[i].length \in {None, Some(AUTO)}
                /\ \A k \in 1..Len(message.signals) :
                      message.signals[k].byte_order = "little_endian")
               => \A k \in 1..Len(message.signals) :
                     message.signals[k].start[1] + message.signals[k].length
                        <= 8 * message.length

(***************************************************************************)
(* Specifications                                                          *)
(***************************************************************************)
InitBits == BitsInit /\ GwIdle /\ KcdIdle
NextBits ==
    \/ LoadStartBit /\ UNCHANGED <<gwVars, kcdVars>>
    \/ DumpOffset /\ UNCHANGED <<gwVars, kcdVars>>
SpecBits == InitBits /\ [][NextBits]_vars

InitGateway == GwInit /\ BitsIdle /\ KcdIdle
NextGateway ==
    \/ ScanRoute /\ UNCHANGED <<bitsVars, kcdVars>>
    \/ ScanDone /\ UNCHANGED <<bitsVars, kcdVars>>
    \/ ResolveTarget /\ UNCHANGED <<bitsVars, kcdVars>>
    \/ GwReturn /\ UNCHANGED <<bitsVars, kcdVars>>
SpecGateway == InitGateway /\ [][NextGateway]_vars

Init == KcdInit /\ BitsIdle /\ GwIdle
Next ==
    \/ ParseRoot /\ UNCHANGED <<bitsVars, gwVars>>
    \/ LoadNodes /\ UNCHANGED <<bitsVars, gwVars>>
    \/ LoadBus /\ UNCHANGED <<bitsVars, gwVars>>
    \/ LoadReturn /\ UNCHANGED <<bitsVars, gwVars>>
    \/ DumpString /\ UNCHANGED <<bitsVars, gwVars>>
Spec == Init /\ [][Next]_vars

=============================================================================
